---- MODULE Spec2Model ----
(***************************************************************************)
(* Model of the mentorbot conversation pipeline: the user middleware, the  *)
(* access gate and the dialogue turn of tgbot/handlers/users/user.py, the  *)
(* repositories with their encrypt/decrypt veil, the FSM storage, the      *)
(* vector memory and the expiry sweeps of tgbot/services/subscription.py.  *)
(*                                                                         *)
(* Time is counted in ticks, TicksPerDay ticks to a day.  A request is one *)
(* inbound update; its pc is the await point the handling task is at.      *)
(***************************************************************************)
EXTENDS Integers, Sequences, FiniteSets, TLC

VARIABLES
    now,      \* datetime.utcnow(), in ticks
    cfg,      \* configuration fixed at start-up (storage kind, payments, encryption)
    users,    \* table users: set of rows
    nextUid,  \* next primary key of table users
    mentors,  \* table mentors: set of rows [id, user_id]
    conv,     \* table conversation_messages: sequence of rows in insertion order
    vec,      \* Qdrant collection: sequence of points in insertion order
    fsm,      \* FSM storage: per chat [state, hist], hist a reference into lists
    lists,    \* heap of Python list objects holding conversation_history
    req,      \* the inbound updates and the position of their handling tasks
    sweep,    \* the two background sub-tasks of the expiry sweep
    sess      \* a repository session driven operation by operation (unit of work)

vars == <<now, cfg, users, nextUid, mentors, conv, vec, fsm, lists, req, sweep, sess>>

----------------------------------------------------------------------------
(* Bounds of the model *)
MaxTime == 2
MaxReq == 3
MaxUid == 3
SweepDays == 2
MaxOps == 4

(* Program constants *)
FreeTierLimit == 10
HistoryLimit == 20
TrimCount == 2
SubDays == 30
TicksPerDay == 2
TopK == 5

Reqs == 1 .. MaxReq
TgIds == {1, 2}
Times == 0 .. MaxTime

None == <<>>
Some(x) == <<x>>
IsSet(o) == Len(o) > 0
Val(o) == o[1]

----------------------------------------------------------------------------
(* Secret store: a text is its plaintext name and the number of Fernet     *)
(* layers around it.                                                       *)
MaxLayers == 2

Text(t, n) == [t |-> t, layers |-> n]

encrypt(text) ==
    IF ~cfg.enc THEN text
    ELSE [text EXCEPT !.layers = IF @ < MaxLayers THEN @ + 1 ELSE @]

(* a decrypt that hands the token back *)
decrypt_keeps_token(token) == token

decrypt(token) ==
    IF ~cfg.enc THEN token
    ELSE IF token.layers > 0 THEN [token EXCEPT !.layers = @ - 1]
    ELSE token

(* what a column holds when the store wrote it as intended *)
AtRest(t) == Text(t, IF cfg.enc THEN 1 ELSE 0)

DecOpt(o) == IF IsSet(o) THEN Some(decrypt(Val(o))) ELSE o
EncOpt(o) == IF IsSet(o) THEN Some(encrypt(Val(o))) ELSE o

----------------------------------------------------------------------------
(* Tables *)

UserRow(id, tg, ban, sub, until, reg, bb, goal) ==
    [id |-> id, telegram_id |-> tg, is_ban |-> ban, is_sub |-> sub,
     sub_until |-> until, is_reg |-> reg, brief_background |-> bb, goal |-> goal]

(* DBUser.from_aiogram followed by the column defaults *)
from_aiogram(id, tg) == UserRow(id, tg, FALSE, FALSE, None, FALSE, None, None)

(* SQLAlchemyRepository.get_one(telegram_id=...): the matching row, if any *)
RowsOf(tg) == {u \in users : u.telegram_id = tg}
get_one(tg) == IF RowsOf(tg) = {} THEN None ELSE Some(CHOOSE u \in RowsOf(tg) : TRUE)

ById(id) == CHOOSE u \in users : u.id = id
HasId(id) == \E u \in users : u.id = id

(* a users table without the constraint *)
no_unique_constraint(tg) == TRUE

(* the unique constraint on users.telegram_id *)
unique_telegram_id(tg) == RowsOf(tg) = {}

(* what a commit writes for a user object the repository handed out: the   *)
(* repository decrypted brief_background and goal in place on the mapped   *)
(* object, so the unit of work sees them changed and flushes them          *)
_decrypt(u) ==
    [u EXCEPT !.brief_background = DecOpt(@), !.goal = DecOpt(@)]

(* UserRepository.get: the row as the caller sees it, decrypted in place *)
get(tg) == IF get_one(tg) = None THEN None ELSE Some(_decrypt(Val(get_one(tg))))

(* UserRepository.update: encrypt in place, update, decrypt in place again; *)
(* the result is what the mapped object holds when the session commits      *)
update(u) ==
    _decrypt([u EXCEPT !.brief_background = EncOpt(@), !.goal = EncOpt(@)])

(* session.commit with the mapped user object u: its columns are flushed *)
CommitUser(u) ==
    IF HasId(u.id) THEN (users \ {x \in users : x.id = u.id}) \cup {u} ELSE users

(* session.commit of a session that only read user id through the repository *)
CommitLoaded(id) == IF HasId(id) THEN CommitUser(_decrypt(ById(id))) ELSE users

(* ConversationRepository.count *)
count(uid) == Cardinality({i \in 1 .. Len(conv) : conv[i].user_id = uid})

MsgRow(uid, role, turn, content) ==
    [user_id |-> uid, role |-> role, turn |-> turn, content |-> content]

(* MentorRepository.get_by_user_id *)
get_by_user_id(uid) == {m \in mentors : m.user_id = uid}

(* gate with the expiry check ahead of the ban check *)
gate_expiry_before_ban(u, cnt, hasMentor) ==
    IF u.is_sub /\ IsSet(u.sub_until) /\ Val(u.sub_until) < now THEN "expired"
    ELSE IF u.is_ban THEN "banned"
    ELSE IF ~u.is_sub /\ cnt > FreeTierLimit THEN "limit"
    ELSE IF ~hasMentor THEN "no_mentor"
    ELSE "allow"

(* gate whose expiry check compares the wrong way round *)
gate_expiry_reversed(u, cnt, hasMentor) ==
    IF u.is_ban THEN "banned"
    ELSE IF u.is_sub /\ IsSet(u.sub_until) /\ Val(u.sub_until) > now THEN "expired"
    ELSE IF ~u.is_sub /\ cnt > FreeTierLimit THEN "limit"
    ELSE IF ~hasMentor THEN "no_mentor"
    ELSE "allow"

(* gate whose free-tier check is count >= limit *)
gate_limit_ge(u, cnt, hasMentor) ==
    IF u.is_ban THEN "banned"
    ELSE IF u.is_sub /\ IsSet(u.sub_until) /\ Val(u.sub_until) < now THEN "expired"
    ELSE IF ~u.is_sub /\ cnt >= FreeTierLimit THEN "limit"
    ELSE IF ~hasMentor THEN "no_mentor"
    ELSE "allow"

(* gate without the mentor check *)
gate_without_mentor(u, cnt, hasMentor) ==
    IF u.is_ban THEN "banned"
    ELSE IF u.is_sub /\ IsSet(u.sub_until) /\ Val(u.sub_until) < now THEN "expired"
    ELSE IF ~u.is_sub /\ cnt > FreeTierLimit THEN "limit"
    ELSE "allow"

(* the order of the checks of dialogue_process: the first match wins *)
gate(u, cnt, hasMentor) ==
    IF u.is_ban THEN "banned"
    ELSE IF u.is_sub /\ IsSet(u.sub_until) /\ Val(u.sub_until) < now THEN "expired"
    ELSE IF ~u.is_sub /\ cnt > FreeTierLimit THEN "limit"
    ELSE IF ~hasMentor THEN "no_mentor"
    ELSE "allow"

----------------------------------------------------------------------------
(* FSM storage and the list objects it hands out *)

NoList == None
ObjIds == 1 .. (2 * MaxReq + 1)
InitObj == 2 * MaxReq + 1
ObjA(r) == 2 * r - 1
ObjB(r) == 2 * r

Entry(role, turn) == [role |-> role, turn |-> turn]

Cleared == [state |-> "none", hist |-> NoList]

(* a clear that drops the data and keeps the state *)
clear_data_only(tg) == [fsm EXCEPT ![tg].hist = NoList]

(* FSMContext.clear *)
clear(tg) == [fsm EXCEPT ![tg] = Cleared]

(* an alternating user/assistant history of n entries written by earlier turns *)
OldHistory(n) ==
    [i \in 1 .. n |-> Entry(IF i % 2 = 1 THEN "user" ELSE "assistant", 0)]

----------------------------------------------------------------------------
(* Requests *)

NewReq == [pc |-> "new", tg |-> 0, kind |-> "none", uid |-> 0,
           hist |-> NoList, hits |-> <<>>, log |-> <<>>]

Step(r, pc, events) ==
    [req EXCEPT ![r].pc = pc, ![r].log = @ \o events]

Done(r, events) == Step(r, "done", events)

InFlight == {r \in Reqs : req[r].pc \notin {"new", "done"}}

----------------------------------------------------------------------------
(* DBUserMiddleware.__call__ *)

Arrive(r, tg, kind) ==
    /\ req[r].pc = "new"
    /\ \A q \in Reqs : q < r => req[q].pc # "new"
    /\ Cardinality(InFlight) < cfg.tasks
    /\ req' = [req EXCEPT ![r] = [NewReq EXCEPT !.pc = "mw", !.tg = tg, !.kind = kind]]
    /\ UNCHANGED <<now, cfg, users, nextUid, mentors, conv, vec, fsm, lists, sweep, sess>>

(* lines 40-48: the ban notice, or on to the handler with the row *)
AfterUser(r, u, events) ==
    IF u.is_ban
    THEN Done(r, events \o <<"mw_ban_notice">>)
    ELSE [Step(r, "handler", events) EXCEPT ![r].uid = u.id]

MwGet(r) ==
    /\ req[r].pc = "mw"
    /\ LET got == get_one(req[r].tg) IN
         req' = IF got = None THEN Step(r, "mw_create", <<>>)
                ELSE AfterUser(r, Val(got), <<>>)
    /\ UNCHANGED <<now, cfg, users, nextUid, mentors, conv, vec, fsm, lists, sweep, sess>>

MwCreate(r) ==
    /\ req[r].pc = "mw_create"
    /\ nextUid <= MaxUid
    /\ unique_telegram_id(req[r].tg)
    /\ LET u == from_aiogram(nextUid, req[r].tg) IN
         /\ users' = users \cup {u}
         /\ nextUid' = nextUid + 1
         /\ req' = AfterUser(r, u, <<"insert_user", "commit">>)
    /\ UNCHANGED <<now, cfg, mentors, conv, vec, fsm, lists, sweep, sess>>

(* the insert loses the race: rollback and read the row again *)
MwCreateLost(r) ==
    /\ req[r].pc = "mw_create"
    /\ ~unique_telegram_id(req[r].tg)
    /\ req' = AfterUser(r, Val(get_one(req[r].tg)), <<"rollback">>)
    /\ UNCHANGED <<now, cfg, users, nextUid, mentors, conv, vec, fsm, lists, sweep, sess>>

----------------------------------------------------------------------------
(* dialogue_process: the access gate, lines 254-338 *)

(* F.text lets any non-empty text through, a whitespace-only one ("blank") *)
(* included                                                                *)
TextKinds == {"text", "blank"}

AtGate(r) ==
    /\ req[r].pc = "handler"
    /\ req[r].kind \in TextKinds
    /\ fsm[req[r].tg].state = "dialogue"
    /\ get_one(req[r].tg) # None

GateUser(r) == Val(get(req[r].tg))

GateOutcome(r) ==
    gate(GateUser(r), count(GateUser(r).id), get_by_user_id(GateUser(r).id) # {})

(* the count is read only for a user the gate sees as unsubscribed *)
CountEvents(u) == IF u.is_sub THEN <<>> ELSE <<"count">>

GateBanned(r) ==
    /\ AtGate(r)
    /\ GateOutcome(r) = "banned"
    /\ req' = Done(r, <<"raise_UserBannedError">>)
    /\ UNCHANGED <<now, cfg, users, nextUid, mentors, conv, vec, fsm, lists, sweep, sess>>

GateExpired(r) ==
    /\ AtGate(r)
    /\ GateOutcome(r) = "expired"
    /\ users' = CommitUser(update([GateUser(r) EXCEPT !.is_sub = FALSE]))
    /\ fsm' = clear(req[r].tg)
    /\ req' = Done(r, <<"update_user", "commit", "expired_msg", "clear">>)
    /\ UNCHANGED <<now, cfg, nextUid, mentors, conv, vec, lists, sweep, sess>>

GateLimit(r) ==
    /\ AtGate(r)
    /\ GateOutcome(r) = "limit"
    /\ fsm' = clear(req[r].tg)
    /\ req' = Done(r, <<"count",
                        IF cfg.payments THEN "limit_msg" ELSE "payments_disabled_msg",
                        "clear">>)
    /\ UNCHANGED <<now, cfg, users, nextUid, mentors, conv, vec, lists, sweep, sess>>

GateNoMentor(r) ==
    /\ AtGate(r)
    /\ GateOutcome(r) = "no_mentor"
    /\ req' = Done(r, CountEvents(GateUser(r)) \o <<"raise_MentorNotFoundError">>)
    /\ UNCHANGED <<now, cfg, users, nextUid, mentors, conv, vec, fsm, lists, sweep, sess>>

(* FSMContext.get_data: MemoryStorage hands out the stored list object     *)
(* itself, RedisStorage a deserialised copy; a missing key gives a new []  *)
GateAllow(r) ==
    /\ AtGate(r)
    /\ GateOutcome(r) = "allow"
    /\ LET stored == fsm[req[r].tg].hist
           alias == ~cfg.use_redis /\ IsSet(stored) IN
         /\ lists' = IF alias THEN lists
                     ELSE [lists EXCEPT ![ObjA(r)] =
                              IF IsSet(stored) THEN lists[Val(stored)] ELSE <<>>]
         /\ req' = [Step(r, "embed", CountEvents(GateUser(r)) \o <<"allow">>)
                      EXCEPT ![r].uid = GateUser(r).id,
                             ![r].hist = IF alias THEN stored ELSE Some(ObjA(r))]
    /\ UNCHANGED <<now, cfg, users, nextUid, mentors, conv, vec, fsm, sweep, sess>>

----------------------------------------------------------------------------
(* dialogue_process: the turn, lines 340-392 *)

VecPoint(tg, role, turn) == [user_id |-> tg, role |-> role, turn |-> turn]

(* qdrantus.store_message: one new point per call *)
store_message(tg, role, turn) == Append(vec, VecPoint(tg, role, turn))

(* a search without the user filter *)
retrieve_unfiltered(tg, top_k) ==
    IF Len(vec) > top_k THEN SubSeq(vec, 1, top_k) ELSE vec

(* qdrantus.retrieve_history: at most top_k points whose payload user_id matches *)
retrieve_history(tg, top_k) ==
    LET own == SelectSeq(vec, LAMBDA p : p.user_id = tg) IN
      IF Len(own) > top_k THEN SubSeq(own, 1, top_k) ELSE own

(* a turn that stores its message before it searches *)
EmbedStoreFirst(r) ==
    /\ req[r].pc = "embed"
    /\ req[r].kind # "blank"
    /\ vec' = store_message(req[r].tg, "user", r)
    /\ req' = [Step(r, "reply", <<"embed", "vec_user", "retrieve">>)
                 EXCEPT ![r].hits =
                   LET own == SelectSeq(vec', LAMBDA p : p.user_id = req[r].tg) IN
                     IF Len(own) > TopK THEN SubSeq(own, 1, TopK) ELSE own]
    /\ UNCHANGED <<now, cfg, users, nextUid, mentors, conv, fsm, lists, sweep, sess>>

(* lines 341-343: embedding of the text, similarity query, store the user turn; *)
(* create_embeddings raises EmbeddingError for a blank text                    *)
Embed(r) ==
    /\ req[r].pc = "embed"
    /\ req[r].kind # "blank"
    /\ vec' = store_message(req[r].tg, "user", r)
    /\ req' = [Step(r, "reply", <<"embed", "retrieve", "vec_user">>)
                 EXCEPT ![r].hits = retrieve_history(req[r].tg, TopK)]
    /\ UNCHANGED <<now, cfg, users, nextUid, mentors, conv, fsm, lists, sweep, sess>>

EmbedFails(r) ==
    /\ req[r].pc = "embed"
    /\ req' = Done(r, <<"raise_EmbeddingError">>)
    /\ UNCHANGED <<now, cfg, users, nextUid, mentors, conv, vec, fsm, lists, sweep, sess>>

(* the text of a stored point: never blank, create_embeddings came first *)
PointText(p) == <<p>>

(* "\n".join *)
RECURSIVE join(_)
join(texts) ==
    IF texts = <<>> THEN <<>>
    ELSE IF Len(texts) = 1 THEN texts[1]
    ELSE texts[1] \o <<"\n">> \o join(Tail(texts))

(* a retrieval turn whatever the hits *)
context_history_always(hits) ==
    <<[role |-> "system", content |-> join([i \in 1 .. Len(hits) |-> PointText(hits[i])])]>>

(* lines 345-350: one system turn of the joined hits, or nothing *)
context_history(hits) ==
    IF hits # <<>>
    THEN <<[role |-> "system", content |-> join([i \in 1 .. Len(hits) |-> PointText(hits[i])])]>>
    ELSE <<>>

(* lines 358-360: what reply_from_mentor is given as conversation_history *)
model_input(r) == context_history(req[r].hits) \o lists[Val(req[r].hist)]

(* lines 324-334: the mentor's columns with the user's two texts *)
mentor_json(r) ==
    [mentor |-> get_by_user_id(req[r].uid),
     brief_background |-> Val(get(req[r].tg)).brief_background,
     goal |-> Val(get(req[r].tg)).goal]

(* the current message ahead of the history *)
messages_user_first(r) ==
    <<[role |-> "system", content |-> mentor_json(r)], Entry("user", r)>> \o model_input(r)

(* reply_from_mentor, temp_openai.py lines 128-138: what the model is sent *)
messages(r) ==
    <<[role |-> "system", content |-> mentor_json(r)]>> \o model_input(r)
        \o <<Entry("user", r)>>

(* line 358: reply_from_mentor *)
Reply(r) ==
    /\ req[r].pc = "reply"
    /\ req' = Step(r, "answer", <<"reply">>)
    /\ UNCHANGED <<now, cfg, users, nextUid, mentors, conv, vec, fsm, lists, sweep, sess>>

(* a failed reply that leaves the user turn in the conversation store *)
ReplyFailsAfterUserRow(r) ==
    /\ req[r].pc = "reply"
    /\ conv' = Append(conv, MsgRow(req[r].uid, "user", r, encrypt(Text("msg", 0))))
    /\ req' = Done(r, <<"raise_AIServiceError">>)
    /\ UNCHANGED <<now, cfg, users, nextUid, mentors, vec, fsm, lists, sweep, sess>>

(* an API error or a blank reply: reply_from_mentor raises AIServiceError *)
ReplyFails(r) ==
    /\ req[r].pc = "reply"
    /\ req' = Done(r, <<"raise_AIServiceError">>)
    /\ UNCHANGED <<now, cfg, users, nextUid, mentors, conv, vec, fsm, lists, sweep, sess>>

(* an extend that also keeps the retrieval turn *)
extend_with_context(h, r) ==
    [lists EXCEPT ![h] = @ \o context_history(req[r].hits)
                           \o <<Entry("user", r), Entry("assistant", r)>>]

(* list.extend on the list object the handler got from get_data *)
extend(h, r) == [lists EXCEPT ![h] = @ \o <<Entry("user", r), Entry("assistant", r)>>]

(* lines 365-377: send the reply, embed and store it, extend the history *)
Answer(r) ==
    /\ req[r].pc = "answer"
    /\ vec' = store_message(req[r].tg, "assistant", r)
    /\ lists' = extend(Val(req[r].hist), r)
    /\ req' = Step(r, "create_user", <<"answer", "embed", "vec_assistant">>)
    /\ UNCHANGED <<now, cfg, users, nextUid, mentors, conv, fsm, sweep, sess>>

(* the reply was sent but its embedding fails *)
AnswerEmbedFails(r) ==
    /\ req[r].pc = "answer"
    /\ req' = Done(r, <<"answer", "raise_EmbeddingError">>)
    /\ UNCHANGED <<now, cfg, users, nextUid, mentors, conv, vec, fsm, lists, sweep, sess>>

(* a create_message that adds the row twice *)
create_message_twice(uid, role, turn, t) ==
    conv \o <<MsgRow(uid, role, turn, encrypt(Text(t, 0))),
              MsgRow(uid, role, turn, encrypt(Text(t, 0)))>>

(* ConversationRepository.create_message: encrypt, add, commit, refresh,   *)
(* then decrypt in place on the mapped object                              *)
create_message(uid, role, turn, t) ==
    Append(conv, MsgRow(uid, role, turn, encrypt(Text(t, 0))))

(* a later commit of the same session flushes the content that             *)
(* create_message decrypted in place                                       *)
FlushContent(c, turn) ==
    [i \in 1 .. Len(c) |->
        IF c[i].turn = turn THEN [c[i] EXCEPT !.content = decrypt(@)] ELSE c[i]]

(* lines 380-382; conversation_messages.user_id is a foreign key to users, *)
(* so the insert fails once the user row is gone                           *)
CreateUserMsg(r) ==
    /\ req[r].pc = "create_user"
    /\ HasId(req[r].uid)
    /\ conv' = create_message(req[r].uid, "user", r, "msg")
    /\ users' = CommitLoaded(req[r].uid)
    /\ req' = Step(r, "create_assistant", <<"conv_user", "commit">>)
    /\ UNCHANGED <<now, cfg, nextUid, mentors, vec, fsm, lists, sweep, sess>>

CreateUserMsgFails(r) ==
    /\ req[r].pc = "create_user"
    /\ req' = Done(r, <<"raise_commit">>)
    /\ UNCHANGED <<now, cfg, users, nextUid, mentors, conv, vec, fsm, lists, sweep, sess>>

(* lines 387-389: a history longer than the limit loses its oldest entries *)
trim(h) == IF Len(h) > HistoryLimit THEN SubSeq(h, TrimCount + 1, Len(h)) ELSE h

(* lines 383-392: the assistant row, the trim, FSMContext.update_data *)
CreateAssistantMsg(r) ==
    /\ req[r].pc = "create_assistant"
    /\ HasId(req[r].uid)
    /\ conv' = LET c == FlushContent(conv, r) IN
                 Append(c, MsgRow(req[r].uid, "assistant", r, encrypt(Text("reply", 0))))
    /\ LET h == lists[Val(req[r].hist)]
           trimmed == Len(h) > HistoryLimit IN
         /\ lists' = IF trimmed THEN [lists EXCEPT ![ObjB(r)] = trim(h)] ELSE lists
         /\ fsm' = [fsm EXCEPT ![req[r].tg].hist =
                       IF trimmed THEN Some(ObjB(r)) ELSE req[r].hist]
    /\ req' = Done(r, <<"conv_assistant", "commit", "update_data">>)
    /\ UNCHANGED <<now, cfg, users, nextUid, mentors, vec, sweep, sess>>

CreateAssistantMsgFails(r) ==
    /\ req[r].pc = "create_assistant"
    /\ req' = Done(r, <<"raise_commit">>)
    /\ UNCHANGED <<now, cfg, users, nextUid, mentors, conv, vec, fsm, lists, sweep, sess>>

----------------------------------------------------------------------------
(* get_about_user, lines 152-223 *)

AtAbout(r) ==
    /\ req[r].kind \in TextKinds
    /\ fsm[req[r].tg].state = "about_user"

(* line 178: init_mentor *)
AboutInit(r) ==
    /\ req[r].pc = "handler"
    /\ AtAbout(r)
    /\ req' = Step(r, "about_persist", <<"init_mentor">>)
    /\ UNCHANGED <<now, cfg, users, nextUid, mentors, conv, vec, fsm, lists, sweep, sess>>

(* a failed init_mentor that leaves the registration form *)
AboutInitFailsCleared(r) ==
    /\ req[r].pc = "handler"
    /\ AtAbout(r)
    /\ fsm' = clear(req[r].tg)
    /\ req' = Done(r, <<"raise_init_mentor">>)
    /\ UNCHANGED <<now, cfg, users, nextUid, mentors, conv, vec, lists, sweep, sess>>

AboutInitFails(r) ==
    /\ req[r].pc = "handler"
    /\ AtAbout(r)
    /\ req' = Done(r, <<"raise_init_mentor">>)
    /\ UNCHANGED <<now, cfg, users, nextUid, mentors, conv, vec, fsm, lists, sweep, sess>>

(* lines 182-201: the profile is committed, then a key of the persona is   *)
(* missing or the mentor insert fails, and the handler raises               *)
AboutPersistFails(r) ==
    /\ req[r].pc = "about_persist"
    /\ get(req[r].tg) # None
    /\ users' = CommitUser(update([Val(get(req[r].tg)) EXCEPT
                                      !.brief_background = Some(Text("bg", 0)),
                                      !.goal = Some(Text("goal", 0)),
                                      !.is_reg = TRUE]))
    /\ req' = Done(r, <<"update_user", "commit", "raise_create_mentor">>)
    /\ UNCHANGED <<now, cfg, nextUid, mentors, conv, vec, fsm, lists, sweep, sess>>

(* a first history of the greeting alone *)
greeting_only(r) == <<Entry("assistant", r)>>

(* lines 219-222: the background text, then the mentor's greeting *)
first_history(r) == <<Entry("user", r), Entry("assistant", r)>>

(* lines 182-223: the profile, the mentor row, the first history *)
AboutPersist(r) ==
    /\ req[r].pc = "about_persist"
    /\ get(req[r].tg) # None
    /\ LET u == Val(get(req[r].tg)) IN
         /\ users' = CommitUser(update([u EXCEPT !.brief_background = Some(Text("bg", 0)),
                                                 !.goal = Some(Text("goal", 0)),
                                                 !.is_reg = TRUE]))
         /\ mentors' = mentors \cup {[id |-> r, user_id |-> u.id]}
    /\ lists' = [lists EXCEPT ![ObjB(r)] = first_history(r)]
    /\ fsm' = [fsm EXCEPT ![req[r].tg] = [state |-> "dialogue", hist |-> Some(ObjB(r))]]
    /\ req' = Done(r, <<"update_user", "commit", "insert_mentor", "commit",
                        "answer", "set_state", "update_data">>)
    /\ UNCHANGED <<now, cfg, nextUid, conv, vec, sweep, sess>>

----------------------------------------------------------------------------
(* user_start, lines 77-149 *)

(* /start without the ban branch *)
start_state_without_ban(u) ==
    IF u.is_reg THEN (IF get_by_user_id(u.id) # {} THEN "dialogue" ELSE "none")
    ELSE "about_user"

StartState(u) ==
    IF u.is_ban THEN "none"
    ELSE IF u.is_reg THEN (IF get_by_user_id(u.id) # {} THEN "dialogue" ELSE "none")
    ELSE "about_user"

UserStart(r) ==
    /\ req[r].pc = "handler"
    /\ req[r].kind = "start"
    /\ get(req[r].tg) # None
    /\ LET u == Val(get(req[r].tg)) IN
         /\ fsm' = [fsm EXCEPT ![req[r].tg] = [state |-> StartState(u), hist |-> NoList]]
         /\ req' = Done(r, IF u.is_ban THEN <<"clear", "start_ban_notice", "clear">>
                            ELSE IF StartState(u) = "none" THEN <<"clear", "answer">>
                            ELSE <<"clear", "answer", "set_state">>)
    /\ UNCHANGED <<now, cfg, users, nextUid, mentors, conv, vec, lists, sweep, sess>>

(* main_menu, main_menu.py lines 41-49 *)
MainMenu(r) ==
    /\ req[r].pc = "handler"
    /\ req[r].kind = "menu"
    /\ fsm' = clear(req[r].tg)
    /\ req' = Done(r, <<"clear", "answer">>)
    /\ UNCHANGED <<now, cfg, users, nextUid, mentors, conv, vec, lists, sweep, sess>>

(* a delete that leaves the messages *)
conv_kept(uid) == conv

(* the delete-orphan cascades of DBUser.mentors and                        *)
(* DBUser.conversation_messages                                            *)
mentors_after_delete(uid) == {mt \in mentors : mt.user_id # uid}
conv_after_delete(uid) == SelectSeq(conv, LAMBDA row : row.user_id # uid)

(* delete_account, main_menu.py line 227: state.clear *)
DeleteClear(r) ==
    /\ req[r].pc = "handler"
    /\ req[r].kind = "delete"
    /\ fsm' = clear(req[r].tg)
    /\ req' = Step(r, "delete_rows", <<"clear">>)
    /\ UNCHANGED <<now, cfg, users, nextUid, mentors, conv, vec, lists, sweep, sess>>

(* lines 228-235: get, session.delete with its cascades, commit, answer *)
DeleteRows(r) ==
    /\ req[r].pc = "delete_rows"
    /\ LET got == get(req[r].tg) IN
         IF got = None
         THEN /\ req' = Done(r, <<"answer">>)
              /\ UNCHANGED <<users, mentors, conv>>
         ELSE /\ users' = users \ RowsOf(req[r].tg)
              /\ mentors' = mentors_after_delete(Val(got).id)
              /\ conv' = conv_after_delete(Val(got).id)
              /\ req' = Done(r, <<"delete_user", "commit", "answer">>)
    /\ UNCHANGED <<now, cfg, nextUid, vec, fsm, lists, sweep, sess>>

(* delete_mentor, mentors.py lines 33-42: the mentor whose id the callback *)
(* data carries is deleted by its primary key                               *)
delete_mentor(r, mid) ==
    /\ req[r].pc = "handler"
    /\ req[r].kind = "delete_mentor"
    /\ mentors' = {mt \in mentors : mt.id # mid}
    /\ req' = Done(r, <<"delete_mentor", "commit", "answer">>)
    /\ UNCHANGED <<now, cfg, users, nextUid, conv, vec, fsm, lists, sweep, sess>>

(* main, __main__.py lines 45-67: a start of the process, with no update   *)
(* being handled; init_qdrant recreates the collection, and a              *)
(* MemoryStorage begins empty                                              *)
main ==
    /\ \A r \in Reqs : req[r].pc \in {"new", "done"}
    /\ vec' = <<>>
    /\ fsm' = IF cfg.use_redis THEN fsm ELSE [t \in TgIds |-> Cleared]
    /\ UNCHANGED <<now, cfg, users, nextUid, mentors, conv, lists, req, sweep, sess>>

----------------------------------------------------------------------------
(* buy_sub.py: the invoice and the payment *)

(* an activation that sets the flag alone *)
activated_flag_only(u) == [u EXCEPT !.is_sub = TRUE]

(* the columns a payment or a gift sets: 30 days from now *)
Activated(u) == [u EXCEPT !.is_sub = TRUE, !.sub_until = Some(now + SubDays * TicksPerDay)]

(* start_buy_sub, lines 21-67: the state is cleared when there is one, then *)
(* the notice that payments are disabled, or BuyState.buying and the invoice *)
start_buy_sub(r) ==
    /\ req[r].pc = "handler"
    /\ req[r].kind = "buy"
    /\ LET had == fsm[req[r].tg].state # "none"
           data == IF had THEN NoList ELSE fsm[req[r].tg].hist IN
         IF cfg.payments
         THEN /\ fsm' = [fsm EXCEPT ![req[r].tg] = [state |-> "buying", hist |-> data]]
              /\ req' = Done(r, <<"set_state", "send_invoice">>)
         ELSE /\ fsm' = [fsm EXCEPT ![req[r].tg] = [state |-> "none", hist |-> data]]
              /\ req' = Done(r, <<"payments_disabled_msg">>)
    /\ UNCHANGED <<now, cfg, users, nextUid, mentors, conv, vec, lists, sweep, sess>>

(* the filters of handle_successful_payment, line 73 *)
AtPayment(r) ==
    /\ req[r].pc = "handler"
    /\ req[r].kind = "payment"
    /\ fsm[req[r].tg].state = "buying"

(* handle_successful_payment, lines 74-87 *)
handle_successful_payment(r) ==
    /\ AtPayment(r)
    /\ get(req[r].tg) # None
    /\ users' = CommitUser(update(Activated(Val(get(req[r].tg)))))
    /\ fsm' = clear(req[r].tg)
    /\ req' = Done(r, <<"update_user", "commit", "paid_msg", "clear">>)
    /\ UNCHANGED <<now, cfg, nextUid, mentors, conv, vec, lists, sweep, sess>>

(* an invoice of the chat that has not been paid yet *)
InvoiceOpen(tg) ==
    Cardinality({q \in Reqs : req[q].tg = tg /\ \E i \in 1 .. Len(req[q].log) :
                                                        req[q].log[i] = "send_invoice"})
      > Cardinality({q \in Reqs : req[q].tg = tg /\ req[q].kind = "payment"})

(* plain text, or a payment, in a state no handler is registered for *)
Unhandled(r) ==
    /\ req[r].pc = "handler"
    /\ \/ /\ req[r].kind \in TextKinds
          /\ fsm[req[r].tg].state \notin {"dialogue", "about_user"}
       \/ /\ req[r].kind = "payment"
          /\ ~AtPayment(r)
    /\ req' = Done(r, <<"unhandled">>)
    /\ UNCHANGED <<now, cfg, users, nextUid, mentors, conv, vec, fsm, lists, sweep, sess>>

----------------------------------------------------------------------------
(* The environment: the clock and the admin *)

SweepIdle == [pc |-> "off"]

(* the last tick of the clock: sweeps are followed over SweepDays days *)
Horizon == IF sweep = SweepIdle THEN MaxTime ELSE SweepDays * TicksPerDay - 1

(* asyncio.sleep: a sweep whose noon has come wakes before the clock moves on *)
Due(t) == sweep # SweepIdle /\ sweep[t].pc = "sleep" /\ sweep[t].wake <= now

Tick ==
    /\ now < Horizon
    /\ \A t \in {"expired", "unpaid"} : ~Due(t)
    /\ now' = now + 1
    /\ UNCHANGED <<cfg, users, nextUid, mentors, conv, vec, fsm, lists, req, sweep, sess>>

(* ban_user_finish, admin.py lines 82-103 *)
AdminBan(tg) ==
    /\ get(tg) # None
    /\ ~Val(get(tg)).is_ban
    /\ users' = CommitUser(update([Val(get(tg)) EXCEPT !.is_ban = TRUE]))
    /\ UNCHANGED <<now, cfg, nextUid, mentors, conv, vec, fsm, lists, req, sweep, sess>>

(* gift_sub_finish, admin.py lines 48-72 *)
gift_sub_finish(tg) ==
    /\ get(tg) # None
    /\ users' = CommitUser(update(Activated(Val(get(tg)))))
    /\ UNCHANGED <<now, cfg, nextUid, mentors, conv, vec, fsm, lists, req, sweep, sess>>

----------------------------------------------------------------------------
(* services/subscription.py: the two daily sweeps, each an asyncio task    *)
(* created once by on_startup                                               *)

SweepTasks == {"expired", "unpaid"}

PERIOD_NAMES == {3, 14, 30, 182, 365}

Noon(day) == day * TicksPerDay + TicksPerDay \div 2

sleep_until_todays_noon(t) == Noon(t \div TicksPerDay)

(* _sleep_until_noon: today's noon, or tomorrow's when it is not before it *)
_sleep_until_noon(t) ==
    LET target == Noon(t \div TicksPerDay) IN
      IF t >= target THEN target + TicksPerDay ELSE target

(* a result set as the list the loop walks, in id order *)
RECURSIVE AsSeq(_)
AsSeq(rows) ==
    IF rows = {} THEN <<>>
    ELSE LET first == CHOOSE u \in rows : \A v \in rows : u.id <= v.id IN
           <<first>> \o AsSeq(rows \ {first})

(* UserRepository.get_expired, get_unpaid_registered *)
get_expired(before) ==
    AsSeq({_decrypt(u) : u \in {x \in users : IsSet(x.sub_until) /\ Val(x.sub_until) < before}})

get_unpaid_registered ==
    AsSeq({_decrypt(u) : u \in {x \in users : x.is_reg /\ ~x.is_sub}})

SweepTask(pc, wake, at, todo, dirty, sent, failed) ==
    [pc |-> pc, wake |-> wake, at |-> at, todo |-> todo, dirty |-> dirty,
     sent |-> sent, failed |-> failed]

(* lines 52-57, 80-83: wake at noon, open a session, read the user list *)
SweepWake(t) ==
    /\ sweep[t].pc = "sleep"
    /\ now >= sweep[t].wake
    /\ sweep' = [sweep EXCEPT ![t].pc = "loop", ![t].at = now, ![t].dirty = <<>>,
                              ![t].todo = IF t = "expired" THEN get_expired(now)
                                          ELSE get_unpaid_registered]
    /\ UNCHANGED <<now, cfg, users, nextUid, mentors, conv, vec, fsm, lists, req, sess>>

expired_text_any_day(u, at) ==
    IF (at - Val(u.sub_until)) \div TicksPerDay = 0 THEN "expired" ELSE "inactive"

(* lines 61-68: the text for a user of the expired list, "none" to skip *)
expired_text(u, at) ==
    LET delta == (at - Val(u.sub_until)) \div TicksPerDay IN
      IF delta = 0 THEN "expired"
      ELSE IF delta \in PERIOD_NAMES THEN "inactive"
      ELSE "none"

SweepText(t) ==
    IF t = "expired" THEN expired_text(Head(sweep[t].todo), sweep[t].at) ELSE "promo"

(* lines 69-71: the demotion, pending in the session until the commit *)
Demoted(t) ==
    LET u == Head(sweep[t].todo) IN
      IF t = "expired" /\ u.is_sub THEN update([u EXCEPT !.is_sub = FALSE]) ELSE u

(* lines 58-68: continue *)
SweepSkip(t) ==
    /\ sweep[t].pc = "loop"
    /\ sweep[t].todo # <<>>
    /\ SweepText(t) = "none"
    /\ sweep' = [sweep EXCEPT ![t].todo = Tail(@),
                              ![t].dirty = Append(@, [o |-> Head(sweep[t].todo),
                                                      demoted |-> FALSE])]
    /\ UNCHANGED <<now, cfg, users, nextUid, mentors, conv, vec, fsm, lists, req, sess>>

(* lines 69-72, 88-89: demote, send *)
SweepSend(t) ==
    /\ sweep[t].pc = "loop"
    /\ sweep[t].todo # <<>>
    /\ SweepText(t) # "none"
    /\ sweep' = [sweep EXCEPT ![t].todo = Tail(@),
                              ![t].dirty = Append(@, [o |-> Demoted(t),
                                                      demoted |-> Demoted(t).is_sub #
                                                                  Head(sweep[t].todo).is_sub]),
                              ![t].sent = Append(@, [tg |-> Head(sweep[t].todo).telegram_id,
                                                     text |-> SweepText(t),
                                                     at |-> sweep[t].at])]
    /\ UNCHANGED <<now, cfg, users, nextUid, mentors, conv, vec, fsm, lists, req, sess>>

(* bot.send_message raises: nothing in the loop catches it, so it leaves   *)
(* the for loop, the session block without a commit and the while loop,    *)
(* and the task ends                                                        *)
SweepSendFails(t) ==
    /\ sweep[t].pc = "loop"
    /\ sweep[t].todo # <<>>
    /\ SweepText(t) # "none"
    /\ sweep' = [sweep EXCEPT ![t].pc = "dead", ![t].dirty = <<>>, ![t].failed = TRUE]
    /\ UNCHANGED <<now, cfg, users, nextUid, mentors, conv, vec, fsm, lists, req, sess>>

(* the UPDATE a flush issues for a mapped object: the columns the session  *)
(* saw change, is_sub when demoted and the two columns decrypted in place  *)
FlushUser(rows, d) ==
    {IF x.id = d.o.id
     THEN [x EXCEPT !.is_sub = IF d.demoted THEN d.o.is_sub ELSE @,
                    !.brief_background = d.o.brief_background, !.goal = d.o.goal]
     ELSE x : x \in rows}

RECURSIVE FlushAll(_, _)
FlushAll(rows, objs) ==
    IF objs = <<>> THEN rows ELSE FlushAll(FlushUser(rows, Head(objs)), Tail(objs))

(* lines 73, 90: the one commit of the iteration, then sleep again *)
SweepCommit(t) ==
    /\ sweep[t].pc = "loop"
    /\ sweep[t].todo = <<>>
    /\ users' = FlushAll(users, sweep[t].dirty)
    /\ sweep' = [sweep EXCEPT ![t].pc = "sleep", ![t].dirty = <<>>,
                              ![t].wake = _sleep_until_noon(now)]
    /\ UNCHANGED <<now, cfg, nextUid, mentors, conv, vec, fsm, lists, req, sess>>

----------------------------------------------------------------------------
(* One session used through the repositories: sess.objs is its identity    *)
(* map of user objects, sess.msgs the message objects it holds (by tag);   *)
(* users and conv are what has been committed                               *)

UserIds == 1 .. MaxUid

Session(objs, msgs, ops) == [pc |-> "open", objs |-> objs, msgs |-> msgs, ops |-> ops]

Attached(id) == IsSet(sess.objs[id])

(* the row a query of this session yields for a user id: the mapped object *)
(* if the session holds one, else the committed row                        *)
Seen(id) ==
    IF Attached(id) THEN sess.objs[id]
    ELSE IF HasId(id) THEN Some(ById(id))
    ELSE None

SeenRows == {Val(Seen(id)) : id \in {i \in UserIds : IsSet(Seen(i))}}

Ids(rows) == {u.id : u \in rows}

(* the repository decrypts every object of a result in place *)
Load(ids) ==
    [id \in UserIds |-> IF id \in ids THEN Some(_decrypt(Val(Seen(id)))) ELSE sess.objs[id]]

(* session.commit: every mapped object is flushed as it stands *)
FlushObjs ==
    {u \in users : ~Attached(u.id)} \cup {Val(sess.objs[id]) : id \in {i \in UserIds : Attached(i)}}

RECURSIVE FlushMsgs(_, _)
FlushMsgs(c, tags) ==
    IF tags = {} THEN c
    ELSE LET tag == CHOOSE x \in tags : TRUE IN FlushMsgs(FlushContent(c, tag), tags \ {tag})

Op(objs, msgs) ==
    /\ sess.pc = "open"
    /\ sess.ops < MaxOps
    /\ sess' = Session(objs, msgs, sess.ops + 1)

(* UserRepository.get *)
RepoGet(tg) ==
    /\ Op(Load(Ids({u \in SeenRows : u.telegram_id = tg})), sess.msgs)
    /\ UNCHANGED <<now, cfg, users, nextUid, mentors, conv, vec, fsm, lists, req, sweep>>

(* UserRepository.create of a new object, with or without profile texts *)
RepoCreate(tg, withText) ==
    /\ {u \in SeenRows : u.telegram_id = tg} = {}
    /\ nextUid <= MaxUid
    /\ LET new == [from_aiogram(nextUid, tg) EXCEPT
                     !.brief_background = IF withText THEN Some(Text("bg", 0)) ELSE None,
                     !.goal = IF withText THEN Some(Text("goal", 0)) ELSE None] IN
         Op([sess.objs EXCEPT ![nextUid] = Some(update(new))], sess.msgs)
    /\ nextUid' = nextUid + 1
    /\ UNCHANGED <<now, cfg, users, mentors, conv, vec, fsm, lists, req, sweep>>

(* UserRepository.update of a mapped object whose caller set a new         *)
(* plaintext, or only flags                                                 *)
RepoUpdate(id, newText) ==
    /\ Attached(id)
    /\ LET o == Val(sess.objs[id])
           set == IF newText THEN [o EXCEPT !.brief_background = Some(Text("bg2", 0))]
                  ELSE [o EXCEPT !.is_reg = TRUE] IN
         Op([sess.objs EXCEPT ![id] = Some(update(set))], sess.msgs)
    /\ UNCHANGED <<now, cfg, users, nextUid, mentors, conv, vec, fsm, lists, req, sweep>>

RepoGetExpired ==
    /\ Op(Load(Ids({u \in SeenRows : IsSet(u.sub_until) /\ Val(u.sub_until) < now})),
          sess.msgs)
    /\ UNCHANGED <<now, cfg, users, nextUid, mentors, conv, vec, fsm, lists, req, sweep>>

RepoGetUnpaid ==
    /\ Op(Load(Ids({u \in SeenRows : u.is_reg /\ ~u.is_sub})), sess.msgs)
    /\ UNCHANGED <<now, cfg, users, nextUid, mentors, conv, vec, fsm, lists, req, sweep>>

(* a message handed back as it was stored *)
content_as_stored(row) == row.content

(* conversation.py lines 20-23: the content of the message handed back,    *)
(* read from the committed row by refresh and decrypted in place           *)
returned_content(row) == decrypt(row.content)

(* ConversationRepository.create_message: its commit flushes the session *)
RepoCreateMessage(uid) ==
    /\ HasId(uid) \/ Attached(uid)
    /\ LET tag == sess.ops + 1 IN
         /\ Op(sess.objs, sess.msgs \cup {tag})
         /\ conv' = Append(FlushMsgs(conv, sess.msgs),
                           MsgRow(uid, "user", tag, encrypt(Text("msg", 0))))
    /\ users' = FlushObjs
    /\ UNCHANGED <<now, cfg, nextUid, mentors, vec, fsm, lists, req, sweep>>

RepoCommit ==
    /\ Op(sess.objs, sess.msgs)
    /\ users' = FlushObjs
    /\ conv' = FlushMsgs(conv, sess.msgs)
    /\ UNCHANGED <<now, cfg, nextUid, mentors, vec, fsm, lists, req, sweep>>

----------------------------------------------------------------------------
(* Initial states *)

SessIdle == [pc |-> "off"]

Kinds == {"text", "start", "menu"}

(* RedisConfig.use_redis, ProviderConfig.enabled, CommonConfig.encryption_on; *)
(* tasks, chats and kinds say how many updates are handled at once, from     *)
(* which chats and of which kinds                                            *)
Config(redis, pay, enc, tasks, chats, kinds) ==
    [use_redis |-> redis, payments |-> pay, enc |-> enc, tasks |-> tasks,
     chats |-> chats, kinds |-> kinds]

OldRows(uid, n) ==
    [i \in 1 .. n |->
        MsgRow(uid, IF i % 2 = 1 THEN "user" ELSE "assistant", 0, AtRest("old"))]

NoLists == [o \in ObjIds |-> <<>>]

InDialogue(tg, n) ==
    /\ fsm = [t \in TgIds |-> IF t = tg THEN [state |-> "dialogue", hist |-> Some(InitObj)]
                              ELSE Cleared]
    /\ lists = [NoLists EXCEPT ![InitObj] = OldHistory(n)]

Quiet ==
    /\ req = [r \in Reqs |-> NewReq]
    /\ sweep = SweepIdle
    /\ sess = SessIdle

(* a registered user in the dialogue state, with any ban and subscription   *)
(* columns and a message count on either side of the free-tier limit        *)
Init ==
    /\ now = 1
    /\ \E pay \in BOOLEAN :
         cfg = Config(TRUE, pay, TRUE, 1, {1}, Kinds)
    /\ \E ban \in BOOLEAN, sub \in BOOLEAN, until \in {None, Some(0), Some(1)} :
         users = {UserRow(1, 1, ban, sub, until, TRUE,
                          Some(AtRest("bg")), Some(AtRest("goal")))}
    /\ nextUid = 2
    /\ mentors \in {{}, {[id |-> 0, user_id |-> 1]}}
    /\ \E n \in {FreeTierLimit, FreeTierLimit + 1} : conv = OldRows(1, n)
    /\ vec = <<>>
    /\ InDialogue(1, 2)
    /\ Quiet

Handle(r) ==
    \/ MwGet(r)
    \/ GateBanned(r) \/ GateExpired(r) \/ GateLimit(r) \/ GateNoMentor(r) \/ GateAllow(r)
    \/ Embed(r) \/ EmbedFails(r) \/ Reply(r) \/ ReplyFails(r)
    \/ Answer(r) \/ AnswerEmbedFails(r)
    \/ CreateUserMsg(r) \/ CreateUserMsgFails(r)
    \/ CreateAssistantMsg(r) \/ CreateAssistantMsgFails(r)
    \/ UserStart(r) \/ MainMenu(r) \/ Unhandled(r)

Next ==
    \/ \E r \in Reqs, tg \in cfg.chats, kind \in cfg.kinds : Arrive(r, tg, kind)
    \/ \E r \in Reqs : Handle(r)
    \/ \E tg \in cfg.chats : AdminBan(tg)
    \/ Tick

Spec == Init /\ [][Next]_vars

----------------------------------------------------------------------------
(* Properties of the access gate *)

Has(log, e) == \E i \in 1 .. Len(log) : log[i] = e
Times_(log, e) == Cardinality({i \in 1 .. Len(log) : log[i] = e})

Moves(r) == req'[r] # req[r]

Row(r) == Val(get_one(req[r].tg))

(* request r is about to read a banned row, in the middleware or at the gate *)
BanSeen(r) ==
    /\ \/ req[r].pc = "mw"
       \/ AtGate(r)
    /\ get_one(req[r].tg) # None
    /\ Row(r).is_ban

(* C1: a request that reads is_ban = true ends at once with the ban outcome *)
(* alone: the notice of the middleware, or UserBannedError at the gate;     *)
(* no table, no vector point and no FSM entry changes, the count is not     *)
(* read, nothing else is emitted, whatever is_sub, sub_until and the count  *)
C1_BanDominates ==
    [][\A r \in Reqs :
         (BanSeen(r) /\ Moves(r)) =>
            /\ req'[r].pc = "done"
            /\ req'[r].log = req[r].log \o
                  <<IF req[r].pc = "mw" THEN "mw_ban_notice" ELSE "raise_UserBannedError">>
            /\ UNCHANGED <<users, mentors, conv, vec, fsm, lists>>]_vars

(* a banned user whose subscription has also expired and whose count is    *)
(* over the limit was stopped at the gate                                   *)
C1_Witness ==
    \E r \in Reqs :
        /\ req[r].pc = "done"
        /\ Has(req[r].log, "raise_UserBannedError")
        /\ get_one(req[r].tg) # None
        /\ Row(r).is_ban /\ Row(r).is_sub
        /\ IsSet(Row(r).sub_until) /\ Val(Row(r).sub_until) < now
        /\ count(Row(r).id) > FreeTierLimit

ExpiredSeen(r) ==
    /\ AtGate(r)
    /\ ~Row(r).is_ban /\ Row(r).is_sub
    /\ IsSet(Row(r).sub_until) /\ Val(Row(r).sub_until) < now

TookExpiry(r) == Has(req[r].log, "expired_msg")

(* C2: a non-banned subscriber whose sub_until is in the past is demoted   *)
(* at the gate: is_sub becomes false and is committed, the only message is *)
(* the expiry message, the count is not read, the state is cleared and the *)
(* turn stops; the branch is taken once, and afterwards is_sub is false    *)
C2_ExpiryOnce ==
    /\ [][\A r \in Reqs :
            (ExpiredSeen(r) /\ Moves(r)) =>
               /\ req'[r].pc = "done"
               /\ req'[r].log = req[r].log \o
                     <<"update_user", "commit", "expired_msg", "clear">>
               /\ \A u \in users' : u.telegram_id = req[r].tg => ~u.is_sub
               /\ fsm'[req[r].tg] = Cleared
               /\ UNCHANGED <<conv, vec>>]_vars
    /\ [](\A r \in Reqs :
            TookExpiry(r) =>
               /\ \A u \in users : u.telegram_id = req[r].tg => ~u.is_sub
               /\ \A q \in Reqs : (q # r /\ req[q].tg = req[r].tg) => ~TookExpiry(q))

(* after the expiry branch the same user came back through /start and a    *)
(* later message was checked against the free-tier count with is_sub false *)
C2_Witness ==
    \E r, q \in Reqs :
        /\ r < q
        /\ TookExpiry(r)
        /\ req[q].pc = "done" /\ req[q].tg = req[r].tg
        /\ Has(req[q].log, "count") /\ Has(req[q].log, "limit_msg")

FreeSeen(r) ==
    /\ AtGate(r)
    /\ ~Row(r).is_ban /\ ~Row(r).is_sub

C4_NullUntilIsExpired ==
    \A r \in Reqs :
        (req[r].pc = "embed" /\ get_one(req[r].tg) # None)
            => ~(Row(r).is_sub /\ ~IsSet(Row(r).sub_until))

(* C16: the step in which a text message for the dialogue state meets a    *)
(* banned user emits the ban notice and leaves the chat's FSM state and    *)
(* stored history cleared                                                  *)
C16_BanClearsState ==
    [][\A r \in Reqs :
          BanSeen(r) /\ Moves(r) /\ req[r].kind \in TextKinds
              /\ fsm[req[r].tg].state = "dialogue" =>
                  /\ Has(req'[r].log, "mw_ban_notice")
                  /\ fsm'[req[r].tg] = Cleared
      ]_vars

(* C17: the step in which the gate finds no mentor for a user it would     *)
(* otherwise allow ends the turn with the mentor-not-found error, clears   *)
(* the chat's FSM state and history, and changes no table and no vector    *)
(* point                                                                   *)
C17_NoMentorClearsState ==
    [][\A r \in Reqs :
          AtGate(r) /\ GateOutcome(r) = "no_mentor" /\ Moves(r) =>
              /\ req'[r].pc = "done"
              /\ Has(req'[r].log, "raise_MentorNotFoundError")
              /\ fsm'[req[r].tg] = Cleared
              /\ UNCHANGED <<users, mentors, conv, vec>>
      ]_vars

----------------------------------------------------------------------------
(* Turns that may fail: one user in the dialogue state, subscribed or on   *)
(* the free tier with the count at its limit, two messages handled at once  *)

InitTurn ==
    /\ now = 1
    /\ \E redis \in BOOLEAN : cfg = Config(redis, TRUE, TRUE, 2, {1}, {"text"})
    /\ \/ /\ users = {UserRow(1, 1, FALSE, TRUE, Some(MaxTime + 1), TRUE,
                              Some(AtRest("bg")), Some(AtRest("goal")))}
          /\ \E n \in {0, 2} : conv = OldRows(1, n)
       \/ /\ users = {UserRow(1, 1, FALSE, FALSE, None, TRUE,
                              Some(AtRest("bg")), Some(AtRest("goal")))}
          /\ conv = OldRows(1, FreeTierLimit)
    /\ nextUid = 2
    /\ mentors = {[id |-> 0, user_id |-> 1]}
    /\ vec = <<>>
    /\ InDialogue(1, 2)
    /\ Quiet

NextTurn ==
    \/ \E r \in Reqs, tg \in cfg.chats, kind \in cfg.kinds : Arrive(r, tg, kind)
    \/ \E r \in Reqs :
         \/ MwGet(r) \/ GateAllow(r) \/ GateLimit(r)
         \/ Embed(r) \/ EmbedFails(r) \/ Reply(r) \/ ReplyFails(r)
         \/ Answer(r) \/ AnswerEmbedFails(r)
         \/ CreateUserMsg(r) \/ CreateUserMsgFails(r)
         \/ CreateAssistantMsg(r) \/ CreateAssistantMsgFails(r)

SpecTurn == InitTurn /\ [][NextTurn]_vars

VecOf(r, role) == \E i \in 1 .. Len(vec) : vec[i].turn = r /\ vec[i].role = role
ConvOf(r, role) == \E i \in 1 .. Len(conv) : conv[i].turn = r /\ conv[i].role = role

(* C5: a turn that has ended left both its messages or neither of them in  *)
(* each store, the conversation store and the vector memory                *)
C5_TurnAllOrNothing ==
    \A r \in Reqs :
        req[r].pc = "done" =>
            /\ VecOf(r, "user") <=> VecOf(r, "assistant")
            /\ ConvOf(r, "user") <=> ConvOf(r, "assistant")

(* C6: a turn whose reply generation failed wrote no row of its own to the *)
(* conversation store                                                      *)
C6_ReplyFailureWritesNoRow ==
    \A r \in Reqs :
        Has(req[r].log, "raise_AIServiceError") =>
            \A i \in 1 .. Len(conv) : conv[i].turn # r

(* a turn failed at reply generation while another turn of the same user   *)
(* went through and wrote its rows                                          *)
C6_Witness ==
    \E r, q \in Reqs :
        /\ req[r].pc = "done" /\ Has(req[r].log, "raise_AIServiceError")
        /\ Has(req[r].log, "vec_user")
        /\ ConvOf(q, "user") /\ ConvOf(q, "assistant")

----------------------------------------------------------------------------
(* Registration, /start, the menu and dialogue turns that all succeed, two  *)
(* updates handled at once, under either FSM storage                        *)

AboutUser(tg) ==
    /\ fsm = [t \in TgIds |-> IF t = tg THEN [state |-> "about_user", hist |-> NoList]
                              ELSE Cleared]
    /\ lists = NoLists

InitChat ==
    /\ now = 1
    /\ \E redis \in BOOLEAN : cfg = Config(redis, TRUE, TRUE, 2, {1}, Kinds)
    /\ nextUid = 2
    /\ conv = <<>>
    /\ vec = <<>>
    /\ \/ /\ users = {UserRow(1, 1, FALSE, TRUE, Some(MaxTime + 1), TRUE,
                              Some(AtRest("bg")), Some(AtRest("goal")))}
          /\ mentors = {[id |-> 0, user_id |-> 1]}
          /\ \E n \in {HistoryLimit - TrimCount, HistoryLimit} : InDialogue(1, n)
       \/ /\ users = {UserRow(1, 1, FALSE, TRUE, Some(MaxTime + 1), FALSE, None, None)}
          /\ mentors = {}
          /\ AboutUser(1)
    /\ Quiet

NextChat ==
    \/ \E r \in Reqs, tg \in cfg.chats, kind \in cfg.kinds : Arrive(r, tg, kind)
    \/ \E r \in Reqs :
         \/ MwGet(r) \/ GateAllow(r)
         \/ Embed(r) \/ Reply(r) \/ Answer(r)
         \/ CreateUserMsg(r) \/ CreateAssistantMsg(r)
         \/ AboutInit(r) \/ AboutPersist(r)
         \/ UserStart(r) \/ MainMenu(r) \/ Unhandled(r)

SpecChat == InitChat /\ [][NextChat]_vars

RoleAt(i) == IF i % 2 = 1 THEN "user" ELSE "assistant"

(* C15: the step that ends a successful registration leaves the user with *)
(* is_reg = true, adds exactly one mentor row, owned by that user, sets    *)
(* the FSM state to the dialogue state and the history to the background   *)
(* text followed by the mentor's greeting                                  *)
C15_Registration ==
    [][\A r \in Reqs :
          req[r].pc = "about_persist" /\ req'[r].pc = "done" =>
              LET tg == req[r].tg
                  new == mentors' \ mentors IN
                /\ \A u \in users' : u.telegram_id = tg => u.is_reg
                /\ \E u \in users' : u.telegram_id = tg
                /\ Cardinality(new) = 1
                /\ \A mt \in new : \E u \in users' : u.telegram_id = tg /\ mt.user_id = u.id
                /\ fsm'[tg].state = "dialogue"
                /\ IsSet(fsm'[tg].hist)
                /\ lists'[Val(fsm'[tg].hist)] = <<Entry("user", r), Entry("assistant", r)>>
      ]_vars

(* a user who was not registered has been registered by a text sent in the *)
(* about_user state                                                        *)
C15_Witness ==
    \E r \in Reqs :
        /\ req[r].pc = "done" /\ Has(req[r].log, "insert_mentor")
        /\ \E u \in users : u.telegram_id = req[r].tg /\ u.is_reg
        /\ \E mt \in mentors : mt.id = r

(* C7: once the turns in progress have ended, the history kept in the FSM  *)
(* has at most 20 entries and alternates user, assistant, user, ... from   *)
(* its first entry                                                         *)
C7_HistoryBounded ==
    InFlight = {} =>
        \A tg \in TgIds :
            IsSet(fsm[tg].hist) =>
                LET h == lists[Val(fsm[tg].hist)] IN
                  /\ Len(h) <= 20
                  /\ \A i \in 1 .. Len(h) : h[i].role = RoleAt(i)

----------------------------------------------------------------------------
(* First contact: no user rows yet, two updates handled at once *)

InitFirst ==
    /\ now = 1
    /\ cfg = Config(TRUE, TRUE, TRUE, 2, TgIds, {"start", "menu"})
    /\ users = {}
    /\ nextUid = 1
    /\ mentors = {}
    /\ conv = <<>>
    /\ vec = <<>>
    /\ fsm = [t \in TgIds |-> Cleared]
    /\ lists = NoLists
    /\ Quiet

NextFirst ==
    \/ \E r \in Reqs, tg \in cfg.chats, kind \in cfg.kinds : Arrive(r, tg, kind)
    \/ \E r \in Reqs :
         \/ MwGet(r) \/ MwCreate(r) \/ MwCreateLost(r)
         \/ UserStart(r) \/ MainMenu(r)

SpecFirst == InitFirst /\ [][NextFirst]_vars

(* C8: however the first messages of a user interleave, the user has at    *)
(* most one row; a request whose insert lost the race has rolled back, has *)
(* the winner's row in hand and goes on to its handler, and every request  *)
(* past the middleware found a row                                         *)
C8_OneRowPerUser ==
    /\ \A tg \in TgIds : Cardinality(RowsOf(tg)) <= 1
    /\ \A r \in Reqs :
         /\ req[r].pc \in {"handler", "done"} =>
               /\ Cardinality(RowsOf(req[r].tg)) = 1
               /\ req[r].uid = Val(get_one(req[r].tg)).id
         /\ Has(req[r].log, "rollback") =>
               /\ ~Has(req[r].log, "insert_user")
               /\ req[r].pc = "handler" \/ Has(req[r].log, "answer")

(* two requests of one user were both past the first lookup with no row;   *)
(* one inserted it, the other rolled back and was answered by its handler  *)
C8_Witness ==
    \E r, q \in Reqs :
        /\ r # q /\ req[r].tg = req[q].tg
        /\ Has(req[q].log, "insert_user")
        /\ Has(req[r].log, "rollback") /\ Has(req[r].log, "answer")
        /\ req[r].pc = "done"

----------------------------------------------------------------------------
(* The sweeps: two users, both tasks started by on_startup at some time   *)
(* of day 0; a subscription may have run out one or three days before     *)

SweepUser(id, sub, until, reg) ==
    UserRow(id, id, FALSE, sub, until, reg,
            IF reg THEN Some(AtRest("bg")) ELSE None,
            IF reg THEN Some(AtRest("goal")) ELSE None)

InitSweep ==
    /\ now \in 0 .. TicksPerDay - 1
    /\ cfg = Config(TRUE, TRUE, TRUE, 1, TgIds, Kinds)
    /\ \E s1, s2, r1, r2 \in BOOLEAN, u1, u2 \in {None, Some(-3 * TicksPerDay), Some(-TicksPerDay), Some(0),
                                            Some(TicksPerDay)} :
         users = {SweepUser(1, s1, u1, r1), SweepUser(2, s2, u2, r2)}
    /\ nextUid = 3
    /\ mentors = {}
    /\ conv = <<>>
    /\ vec = <<>>
    /\ fsm = [t \in TgIds |-> Cleared]
    /\ lists = NoLists
    /\ req = [r \in Reqs |-> NewReq]
    /\ sess = SessIdle
    /\ sweep = [t \in SweepTasks |->
                  SweepTask("sleep", _sleep_until_noon(now), 0, <<>>, <<>>, <<>>, FALSE)]

NextSweep ==
    \/ Tick
    \/ \E t \in SweepTasks :
         \/ SweepWake(t) \/ SweepSkip(t) \/ SweepSend(t) \/ SweepSendFails(t)
         \/ SweepCommit(t)

SpecSweep == InitSweep /\ [][NextSweep]_vars

(* C9: a sweep task in which a send has failed is still running: it is in  *)
(* its loop over the remaining users or asleep until the next noon         *)
C9_SendFailureDoesNotAbort ==
    \A t \in SweepTasks : sweep[t].failed => sweep[t].pc \in {"loop", "sleep"}

----------------------------------------------------------------------------
(* Repository operations and commits in one session, encryption enabled   *)
(* or disabled: one committed user whose texts are stored as the switch    *)
(* has them written                                                        *)

InitRepo ==
    /\ now = 1
    /\ \E enc \in BOOLEAN : cfg = Config(TRUE, TRUE, enc, 1, TgIds, Kinds)
    /\ \E sub \in BOOLEAN, until \in {None, Some(0)}, reg \in BOOLEAN :
         users = {UserRow(1, 1, FALSE, sub, until, reg,
                          Some(AtRest("bg")), Some(AtRest("goal")))}
    /\ nextUid = 2
    /\ mentors = {}
    /\ conv = <<>>
    /\ vec = <<>>
    /\ fsm = [t \in TgIds |-> Cleared]
    /\ lists = NoLists
    /\ req = [r \in Reqs |-> NewReq]
    /\ sweep = SweepIdle
    /\ sess = Session([id \in UserIds |-> None], {}, 0)

NextRepo ==
    \/ \E tg \in TgIds : RepoGet(tg)
    \/ \E tg \in TgIds, withText \in BOOLEAN : RepoCreate(tg, withText)
    \/ \E id \in UserIds, newText \in BOOLEAN : RepoUpdate(id, newText)
    \/ RepoGetExpired
    \/ RepoGetUnpaid
    \/ \E uid \in UserIds : RepoCreateMessage(uid)
    \/ RepoCommit

SpecRepo == InitRepo /\ [][NextRepo]_vars

Stored(o) == IsSet(o) => Val(o).layers >= 1

(* C10: with encryption enabled, every committed brief_background, goal    *)
(* and message content is ciphertext                                       *)
C10_CiphertextAtRest ==
    cfg.enc =>
        /\ \A u \in users : Stored(u.brief_background) /\ Stored(u.goal)
        /\ \A i \in 1 .. Len(conv) : conv[i].content.layers >= 1

----------------------------------------------------------------------------
(* services/encryption.py on its own: setup with the switch on or off, then *)
(* encrypt and decrypt applied to a text and to each other's results;       *)
(* sess keeps the value in hand, the two values before it and the two       *)
(* calls that led to it                                                     *)

TextNames == {"bg", "goal", "msg", "reply", "old"}

Crypt(val, prev, prev2, op, op2, ops) ==
    [pc |-> "crypt", val |-> val, prev |-> prev, prev2 |-> prev2,
     op |-> op, op2 |-> op2, ops |-> ops]

Call(op, result) ==
    /\ sess.ops < MaxOps
    /\ sess' = Crypt(result, sess.val, sess.prev, op, sess.op, sess.ops + 1)
    /\ UNCHANGED <<now, cfg, users, nextUid, mentors, conv, vec, fsm, lists, req, sweep>>

CryptEncrypt ==
    /\ sess.val.layers < MaxLayers
    /\ Call("encrypt", encrypt(sess.val))

CryptDecrypt == Call("decrypt", decrypt(sess.val))

InitCrypt ==
    /\ now = 1
    /\ \E enc \in BOOLEAN : cfg = Config(TRUE, TRUE, enc, 1, TgIds, Kinds)
    /\ users = {}
    /\ nextUid = 1
    /\ mentors = {}
    /\ conv = <<>>
    /\ vec = <<>>
    /\ fsm = [t \in TgIds |-> Cleared]
    /\ lists = NoLists
    /\ req = [r \in Reqs |-> NewReq]
    /\ sweep = SweepIdle
    /\ \E t \in TextNames, n \in 0 .. 1 :
         sess = Crypt(Text(t, n), Text(t, n), Text(t, n), "none", "none", 0)

NextCrypt == CryptEncrypt \/ CryptDecrypt

SpecCrypt == InitCrypt /\ [][NextCrypt]_vars

(* C11: with encryption enabled, decrypting what encrypt returned gives    *)
(* the text that was encrypted; with encryption disabled, encrypt and      *)
(* decrypt both return their argument                                      *)
C11_RoundTrip ==
    /\ cfg.enc /\ sess.op2 = "encrypt" /\ sess.op = "decrypt" => sess.val = sess.prev2
    /\ ~cfg.enc /\ sess.op # "none" => sess.val = sess.prev

(* with encryption enabled a text was encrypted to a token that differs    *)
(* from it and the token was decrypted                                      *)
C11_Witness ==
    /\ cfg.enc /\ sess.op2 = "encrypt" /\ sess.op = "decrypt"
    /\ sess.prev # sess.prev2

----------------------------------------------------------------------------
(* Two subscribed users in the dialogue state whose text messages, blank   *)
(* ones among them, are handled two at a time                               *)

InitPair ==
    /\ now = 1
    /\ cfg = Config(TRUE, TRUE, TRUE, 2, TgIds, TextKinds)
    /\ users = {UserRow(id, id, FALSE, TRUE, Some(MaxTime + SubDays * TicksPerDay), TRUE,
                        Some(AtRest("bg")), Some(AtRest("goal"))) : id \in TgIds}
    /\ nextUid = 3
    /\ mentors = {[id |-> 0, user_id |-> 1], [id |-> -1, user_id |-> 2]}
    /\ conv = <<>>
    /\ vec = <<>>
    /\ fsm = [t \in TgIds |-> [state |-> "dialogue",
                               hist |-> IF t = 1 THEN Some(InitObj) ELSE NoList]]
    /\ lists = [NoLists EXCEPT ![InitObj] = OldHistory(2)]
    /\ Quiet

NextPair ==
    \/ \E r \in Reqs, tg \in cfg.chats, kind \in cfg.kinds : Arrive(r, tg, kind)
    \/ \E r \in Reqs :
         \/ MwGet(r) \/ GateAllow(r)
         \/ Embed(r) \/ EmbedFails(r) \/ Reply(r) \/ Answer(r)
         \/ CreateUserMsg(r) \/ CreateAssistantMsg(r)

SpecPair == InitPair /\ [][NextPair]_vars

Succeeded(r) == req[r].pc = "done" /\ Has(req[r].log, "update_data")

RowsOfTurn(r) == SelectSeq(conv, LAMBDA m : m.turn = r)

(* C12: a turn that went through has persisted exactly two rows, the first *)
(* with role user and the incoming text, the second with role assistant    *)
(* and the reply, both for the user who sent the message                   *)
C12_TwoRowsPerTurn ==
    \A r \in Reqs :
        Succeeded(r) =>
            LET rows == RowsOfTurn(r) IN
              /\ Len(rows) = 2
              /\ rows[1].role = "user" /\ rows[1].content.t = "msg"
              /\ rows[2].role = "assistant" /\ rows[2].content.t = "reply"
              /\ \A i \in 1 .. 2 : rows[i].user_id = Val(get_one(req[r].tg)).id

(* both users have had a turn go through *)
C12_Witness ==
    \E r, q \in Reqs :
        /\ Succeeded(r) /\ Succeeded(q)
        /\ req[r].tg # req[q].tg
        /\ Len(conv) = 4

SystemTurns(inp) == SelectSeq(inp, LAMBDA e : e.role = "system")

(* C13: what the model is given holds no system turn when the search had  *)
(* no hit, and exactly one when it had hits, whose content is the texts of *)
(* the hits joined by newlines and is not empty                            *)
C13_RetrievalTurn ==
    \A r \in Reqs :
        req[r].pc = "reply" =>
            LET sys == SystemTurns(model_input(r))
                hits == req[r].hits IN
              /\ hits = <<>> => sys = <<>>
              /\ hits # <<>> =>
                    /\ Len(sys) = 1
                    /\ sys[1].content = join([i \in 1 .. Len(hits) |-> PointText(hits[i])])
              /\ \A i \in 1 .. Len(sys) : sys[i].content # <<>>

(* a reply is about to be asked for with two hits, and another with none   *)
C13_Witness ==
    /\ \E r \in Reqs : req[r].pc = "reply" /\ Len(req[r].hits) >= 2
    /\ \E q \in Reqs : Has(req[q].log, "retrieve") /\ req[q].hits = <<>>

(* C14: every hit of a similarity search was stored for the user the       *)
(* search was made for                                                     *)
C14_VectorPartition ==
    \A r \in Reqs :
        \A i \in 1 .. Len(req[r].hits) :
            /\ req[r].hits[i].user_id = req[r].tg
            /\ \E j \in 1 .. Len(vec) : vec[j] = req[r].hits[i]

(* a search returned hits while the collection held the other user's       *)
(* points, stored by an earlier turn                                       *)
C14_Witness ==
    \E r \in Reqs :
        /\ req[r].hits # <<>>
        /\ \E j \in 1 .. Len(vec) : vec[j].user_id # req[r].tg /\ vec[j].turn < r

----------------------------------------------------------------------------
(* Account deletion: two registered users with mentors and messages, the   *)
(* first in the dialogue state; text messages and the delete_account       *)
(* callback, two updates handled at once                                    *)

InitDelete ==
    /\ now = 1
    /\ cfg = Config(TRUE, TRUE, TRUE, 2, {1}, {"text", "delete", "delete_mentor"})
    /\ users = {UserRow(id, id, FALSE, TRUE, Some(MaxTime + SubDays * TicksPerDay), TRUE,
                        Some(AtRest("bg")), Some(AtRest("goal"))) : id \in TgIds}
    /\ nextUid = 3
    /\ mentors = {[id |-> 0, user_id |-> 1], [id |-> -1, user_id |-> 2]}
    /\ \E n \in {0, 2} : conv = OldRows(1, n) \o OldRows(2, 2)
    /\ vec = <<>>
    /\ InDialogue(1, 2)
    /\ Quiet

NextDelete ==
    \/ \E r \in Reqs, tg \in cfg.chats, kind \in cfg.kinds : Arrive(r, tg, kind)
    \/ \E r \in Reqs :
         \/ MwGet(r) \/ MwCreate(r) \/ MwCreateLost(r)
         \/ GateAllow(r) \/ Embed(r) \/ Reply(r) \/ Answer(r)
         \/ CreateUserMsg(r) \/ CreateUserMsgFails(r)
         \/ CreateAssistantMsg(r) \/ CreateAssistantMsgFails(r)
         \/ DeleteClear(r) \/ DeleteRows(r) \/ Unhandled(r)
         \/ GateNoMentor(r)
         \/ \E mt \in mentors : delete_mentor(r, mt.id)
    \/ main

SpecDelete == InitDelete /\ [][NextDelete]_vars

(* C18: no mentor row and no message row ever references a user that has   *)
(* no row; the step of delete_account that deletes leaves no row of the    *)
(* user, keeps every other user's row and finds the chat in no FSM state;  *)
(* its state.clear step leaves the chat's FSM entry cleared                *)
C18_DeleteCascade ==
    /\ [](/\ \A mt \in mentors : HasId(mt.user_id)
          /\ \A i \in 1 .. Len(conv) : HasId(conv[i].user_id))
    /\ [][\A r \in Reqs :
            /\ req[r].pc = "delete_rows" /\ req'[r].pc = "done" =>
                  /\ \A u \in users' : u.telegram_id # req[r].tg
                  /\ \A u \in users : u.telegram_id # req[r].tg => u \in users'
                  /\ fsm'[req[r].tg].state = "none"
            /\ req[r].pc = "handler" /\ req'[r].pc = "delete_rows" =>
                  fsm'[req[r].tg] = Cleared
       ]_vars

(* the first user's account has been deleted while the user had a mentor   *)
(* and messages; the second user's rows are still there                    *)
C18_Witness ==
    \E r \in Reqs :
        /\ req[r].pc = "done" /\ Has(req[r].log, "delete_user")
        /\ ~HasId(1) /\ HasId(2)
        /\ Len(conv) = 2
        /\ Cardinality(mentors) = 1

(* C19: the message create_message hands back has the plaintext content    *)
(* it was called with, with encryption enabled or disabled, and its row is *)
(* in the committed table                                                  *)
C19_CreateMessageReturnsPlaintext ==
    [][sess.pc = "open" /\ Len(conv') = Len(conv) + 1 =>
          LET row == conv'[Len(conv')] IN
            /\ row.turn = sess'.ops
            /\ returned_content(row) = Text("msg", 0)
      ]_vars

(* with encryption enabled a message has been created in a session that   *)
(* had created one before; its committed content is a token                *)
C19_Witness ==
    /\ sess.pc = "open" /\ cfg.enc
    /\ Len(conv) >= 2
    /\ conv[Len(conv)].content = Text("msg", 1)
    /\ conv[Len(conv)].turn = sess.ops

(* C20: when an iteration of the expired-subscription sweep ends, every    *)
(* user of the list it read, those whose sub_until was set and in the      *)
(* past, has is_sub = false                                                *)
C20_SweepDemotesAllExpired ==
    [][sweep # SweepIdle /\ sweep.expired.pc = "loop" /\ sweep'.expired.pc = "sleep" =>
          \A i \in 1 .. Len(sweep.expired.dirty) :
              \A u \in users' : u.id = sweep.expired.dirty[i].o.id => ~u.is_sub
      ]_vars

(* C21: the expired sweep handles a user of its list by the whole days     *)
(* since expiry at the time the list was read: the just-expired text for   *)
(* 0, the period reminder for 3, 14, 30, 182 and 365, nothing otherwise;   *)
(* whoever it sent a text had sub_until in the past, and a user whose      *)
(* sub_until is null or not in the past keeps is_sub                       *)
C21_ExpiredSweepMessages ==
    /\ [][sweep.expired.pc = "loop" /\ sweep'.expired.pc = "loop"
          /\ sweep'.expired.todo # sweep.expired.todo =>
            LET u == Head(sweep.expired.todo)
                days == (sweep.expired.at - Val(u.sub_until)) \div TicksPerDay
                e(text) == [tg |-> u.telegram_id, text |-> text, at |-> sweep.expired.at]
            IN sweep'.expired.sent =
                 IF days = 0 THEN Append(sweep.expired.sent, e("expired"))
                 ELSE IF days \in {3, 14, 30, 182, 365}
                      THEN Append(sweep.expired.sent, e("inactive"))
                      ELSE sweep.expired.sent
         ]_vars
    /\ [](\A i \in 1 .. Len(sweep.expired.sent) :
            \E u \in users : /\ u.telegram_id = sweep.expired.sent[i].tg
                             /\ IsSet(u.sub_until)
                             /\ Val(u.sub_until) < sweep.expired.sent[i].at)
    /\ [][\A u \in users :
            ~IsSet(u.sub_until) \/ Val(u.sub_until) >= sweep.expired.at =>
                \A v \in users' : v.id = u.id => v.is_sub = u.is_sub
         ]_vars

C21_Witness ==
    /\ sweep.expired.pc = "sleep"
    /\ \E j \in 1 .. Len(sweep.expired.sent) : sweep.expired.sent[j].text = "inactive"
    /\ \E u \in users : u.is_sub /\ IsSet(u.sub_until) /\ Val(u.sub_until) >= now

(* C22: when an iteration of the unpaid-registered sweep ends, it has sent *)
(* exactly one promotional text to every registered user without an active *)
(* subscription (is_sub and sub_until in the future) and none to anyone    *)
(* else                                                                    *)
C22_PromoToEveryUnpaid ==
    [][sweep.unpaid.pc = "loop" /\ sweep'.unpaid.pc = "sleep" =>
          \A u \in users :
            LET active == u.is_sub /\ IsSet(u.sub_until)
                                   /\ Val(u.sub_until) > sweep.unpaid.at
                got == {i \in 1 .. Len(sweep.unpaid.sent) :
                          /\ sweep.unpaid.sent[i].tg = u.telegram_id
                          /\ sweep.unpaid.sent[i].at = sweep.unpaid.at}
            IN /\ \A i \in got : sweep.unpaid.sent[i].text = "promo"
               /\ Cardinality(got) = IF u.is_reg /\ ~active THEN 1 ELSE 0
      ]_vars

(* C23: a sweep task starts an iteration only at noon and on a later day   *)
(* than its previous one: at the start of the process and after every      *)
(* iteration it sleeps until today's noon when that is still ahead and     *)
(* until tomorrow's otherwise                                              *)
IsNoon(t) == t % TicksPerDay = TicksPerDay \div 2

NextNoon(t) == CHOOSE n \in t .. t + TicksPerDay : IsNoon(n) /\ (n > t \/ ~IsNoon(t)) /\
                   \A k \in t .. n - 1 : ~IsNoon(k) \/ k = t

C23_OncePerDayAtNoon ==
    /\ \A t \in SweepTasks : sweep[t].wake = NextNoon(now)
    /\ [][\A t \in SweepTasks :
            /\ sweep[t].pc = "sleep" /\ sweep'[t].pc = "loop" =>
                 /\ IsNoon(now)
                 /\ IsNoon(sweep[t].at) => sweep[t].at \div TicksPerDay < now \div TicksPerDay
            /\ sweep[t].pc = "loop" /\ sweep'[t].pc = "sleep" =>
                 /\ sweep'[t].wake > now
                 /\ sweep'[t].wake \div TicksPerDay > sweep[t].at \div TicksPerDay
                 /\ sweep'[t].wake = NextNoon(now)
         ]_vars

C23_Witness ==
    /\ sweep.expired.pc = "loop"
    /\ sweep.expired.at = Noon(1)
    /\ sweep.unpaid.pc = "sleep" /\ sweep.unpaid.wake = Noon(2)

----------------------------------------------------------------------------
(* /start and the menu for one user, who may be registered, have a mentor *)
(* and be banned at any moment, from any FSM state registration allows     *)

InitStart ==
    /\ now = 1
    /\ cfg = Config(TRUE, TRUE, TRUE, 2, {1}, {"start", "menu"})
    /\ nextUid = 2
    /\ conv = <<>>
    /\ vec = <<>>
    /\ \E ban, reg, hasMentor \in BOOLEAN :
         /\ hasMentor => reg
         /\ users = {UserRow(1, 1, ban, FALSE, None, reg,
                             IF reg THEN Some(AtRest("bg")) ELSE None,
                             IF reg THEN Some(AtRest("goal")) ELSE None)}
         /\ mentors = IF hasMentor THEN {[id |-> 0, user_id |-> 1]} ELSE {}
         /\ \/ fsm = [t \in TgIds |-> Cleared] /\ lists = NoLists
            \/ ~reg /\ AboutUser(1)
            \/ hasMentor /\ InDialogue(1, 2)
    /\ Quiet

NextStart ==
    \/ \E r \in Reqs, tg \in cfg.chats, kind \in cfg.kinds : Arrive(r, tg, kind)
    \/ \E r \in Reqs : MwGet(r) \/ UserStart(r) \/ MainMenu(r)
    \/ \E tg \in cfg.chats : AdminBan(tg)

SpecStart == InitStart /\ [][NextStart]_vars

(* C24: user_start clears the FSM state first and ends with the state its  *)
(* read of the user decides: cleared after the ban text for a banned user, *)
(* the dialogue state for a registered user with a mentor, cleared for a   *)
(* registered user without one, the about_user state for an unregistered   *)
(* user                                                                    *)
C24_StartOutcome ==
    [][\A r \in Reqs :
         req[r].kind = "start" /\ req[r].pc = "handler" /\ req'[r].pc = "done" =>
           LET u == CHOOSE x \in users : x.telegram_id = req[r].tg
               log == req'[r].log
               hasMentor == \E mt \in mentors : mt.user_id = u.id
           IN /\ Len(log) >= 2 /\ log[1] = "clear"
              /\ fsm'[req[r].tg].hist = NoList
              /\ u.is_ban =>
                   /\ fsm'[req[r].tg] = Cleared
                   /\ log = <<"clear", "start_ban_notice", "clear">>
              /\ ~u.is_ban /\ u.is_reg /\ hasMentor =>
                   /\ fsm'[req[r].tg].state = "dialogue"
                   /\ ~Has(log, "start_ban_notice")
              /\ ~u.is_ban /\ u.is_reg /\ ~hasMentor =>
                   /\ fsm'[req[r].tg] = Cleared
                   /\ ~Has(log, "start_ban_notice")
              /\ ~u.is_ban /\ ~u.is_reg =>
                   /\ fsm'[req[r].tg].state = "about_user"
                   /\ ~Has(log, "start_ban_notice")
      ]_vars

C24_Witness ==
    /\ \E r \in Reqs : /\ req[r].kind = "start" /\ req[r].pc = "done"
                       /\ Has(req[r].log, "start_ban_notice")
    /\ \E r \in Reqs : /\ req[r].kind = "start" /\ req[r].pc = "done"
                       /\ Has(req[r].log, "set_state")
    /\ fsm[1] = Cleared

(* C25: the reply is asked for, and Vector Memory and the Conversation     *)
(* Store are written, only by a turn whose gate saw an existing user that  *)
(* is not banned, not subscribed-and-expired, not unsubscribed over the    *)
(* free-tier limit, and has a mentor; a message that ended in a terminal   *)
(* branch of the gate made none of these calls and writes                  *)
TurnCalls == {"embed", "retrieve", "vec_user", "reply", "vec_assistant",
              "conv_user", "conv_assistant"}

GateStops == {"mw_ban_notice", "raise_UserBannedError", "expired_msg", "limit_msg",
              "payments_disabled_msg", "raise_MentorNotFoundError"}

Wrote(r) ==
    \/ \E e \in TurnCalls : Has(req[r].log, e)
    \/ \E i \in 1 .. Len(vec) : vec[i].turn = r
    \/ \E i \in 1 .. Len(conv) : conv[i].turn = r

C25_OnlyAllowedTurnsWrite ==
    /\ [](\A r \in Reqs :
            /\ Wrote(r) => Has(req[r].log, "allow")
            /\ (\E e \in GateStops : Has(req[r].log, e)) =>
                  ~Wrote(r) /\ ~Has(req[r].log, "allow") /\ req[r].pc = "done")
    /\ [][\A r \in Reqs :
            ~Has(req[r].log, "allow") /\ Has(req'[r].log, "allow") =>
              \E u \in users :
                /\ u.telegram_id = req[r].tg
                /\ ~u.is_ban
                /\ ~(u.is_sub /\ IsSet(u.sub_until) /\ Val(u.sub_until) < now)
                /\ ~(~u.is_sub /\ Cardinality({i \in 1 .. Len(conv) :
                                                 conv[i].user_id = u.id}) > 10)
                /\ \E mt \in mentors : mt.user_id = u.id
         ]_vars

C25_Witness ==
    \E r, q \in Reqs :
      /\ Has(req[r].log, "allow") /\ Has(req[r].log, "conv_assistant")
      /\ Has(req[q].log, "limit_msg")
      /\ \E i \in 1 .. Len(vec) : vec[i].turn = r
      /\ ~\E i \in 1 .. Len(vec) : vec[i].turn = q

(* C26: the model is sent, in this order, one system message with the     *)
(* mentor persona and the user's brief_background and goal, the retrieval  *)
(* system turn when the search had a hit, the short-term history as it is  *)
(* stored, and the current user message as the last entry                  *)
C26_ModelInputOrder ==
    \A r \in Reqs :
        req[r].pc = "reply" =>
            LET m == messages(r)
                h == lists[Val(req[r].hist)]
                k == IF req[r].hits # <<>> THEN 1 ELSE 0
            IN /\ Len(m) = 1 + k + Len(h) + 1
               /\ m[1].role = "system"
               /\ m[1].content.mentor = {mt \in mentors : mt.user_id = req[r].uid}
               /\ m[1].content.mentor # {}
               /\ m[1].content.brief_background = Some(Text("bg", 0))
               /\ m[1].content.goal = Some(Text("goal", 0))
               /\ k = 1 => /\ m[2].role = "system"
                           /\ m[2].content =
                                join([i \in 1 .. Len(req[r].hits) |-> PointText(req[r].hits[i])])
               /\ \A i \in 1 .. Len(h) : m[1 + k + i] = h[i]
               /\ m[Len(m)] = [role |-> "user", turn |-> r]

C26_Witness ==
    \E r \in Reqs :
        /\ req[r].pc = "reply"
        /\ req[r].hits # <<>>
        /\ Len(lists[Val(req[r].hist)]) >= 4

(* C27: the stored short-term history holds user and assistant entries in *)
(* pairs only, never the retrieval turn, so its length is even; the        *)
(* similarity search changes neither the history nor the FSM, and a turn   *)
(* that went through has added its two entries, user then assistant, once  *)
StoredHistory(tg) == IF IsSet(fsm[tg].hist) THEN lists[Val(fsm[tg].hist)] ELSE <<>>

PairsOf(h, r) ==
    {i \in 1 .. Len(h) - 1 : h[i] = Entry("user", r) /\ h[i + 1] = Entry("assistant", r)}

C27_RetrievalLeavesHistory ==
    /\ [](\A tg \in TgIds :
            LET h == StoredHistory(tg) IN
              /\ Len(h) % 2 = 0
              /\ \A i \in 1 .. Len(h) : h[i].role = RoleAt(i))
    /\ [][\A r \in Reqs :
            /\ req[r].pc = "embed" /\ req'[r].pc = "reply" =>
                 lists' = lists /\ fsm' = fsm
            /\ req[r].pc = "reply" /\ req'[r].pc = "answer" =>
                 lists' = lists /\ fsm' = fsm
            /\ req[r].pc = "answer" /\ req'[r].pc = "create_user" =>
                 LET h == Val(req[r].hist) IN
                   lists'[h] = lists[h] \o <<Entry("user", r), Entry("assistant", r)>>
            /\ req[r].pc = "create_assistant" /\ req'[r].pc = "done" =>
                 LET h == StoredHistory(req[r].tg)' IN
                   /\ Cardinality(PairsOf(h, r)) = 1
                   /\ Cardinality({i \in 1 .. Len(h) : h[i].turn = r}) = 2
         ]_vars

C27_Witness ==
    \E r \in Reqs :
        /\ Succeeded(r)
        /\ req[r].hits # <<>>
        /\ PairsOf(StoredHistory(req[r].tg), r) # {}

Emitted(log) ==
    Cardinality({i \in 1 .. Len(log) :
                   log[i] \in {"expired_msg", "limit_msg", "payments_disabled_msg", "answer"}})

StopsDialogue(log) ==
    Has(log, "expired_msg") \/ Has(log, "limit_msg") \/ Has(log, "payments_disabled_msg")

IndexOf(log, e) == CHOOSE i \in 1 .. Len(log) : log[i] = e

C30_QueryBeforeWrite ==
    /\ [](\A r \in Reqs :
            /\ \A i \in 1 .. Len(req[r].hits) : req[r].hits[i].turn # r
            /\ Has(req[r].log, "vec_user") =>
                  /\ Has(req[r].log, "retrieve")
                  /\ IndexOf(req[r].log, "retrieve") < IndexOf(req[r].log, "vec_user")
            /\ Has(req[r].log, "vec_assistant") =>
                  IndexOf(req[r].log, "retrieve") < IndexOf(req[r].log, "vec_assistant")
            /\ Times_(req[r].log, "retrieve") <= 1)
    /\ [][\A r \in Reqs :
            req'[r].hits # req[r].hits =>
               /\ ~\E i \in 1 .. Len(vec) : vec[i].turn = r
               /\ \A i \in 1 .. Len(req'[r].hits) :
                    \E j \in 1 .. Len(vec) : vec[j] = req'[r].hits[i]
         ]_vars

C30_Witness ==
    \E r \in Reqs :
        /\ req[r].hits # <<>>
        /\ \E i, j \in 1 .. Len(vec) :
             /\ vec[i] = VecPoint(req[r].tg, "user", r)
             /\ vec[j] = VecPoint(req[r].tg, "assistant", r)

----------------------------------------------------------------------------
(* Registration of one Telegram user: a new user, or one whose account was *)
(* deleted and whose turns of that time are still in Vector Memory; the    *)
(* persona generation and the mentor insert may fail                       *)

DeletedAccountVec == <<VecPoint(1, "user", 0), VecPoint(1, "assistant", 0)>>

InitReg ==
    /\ now = 1
    /\ cfg = Config(TRUE, TRUE, TRUE, 2, {1}, {"start", "text"})
    /\ nextUid = 2
    /\ mentors = {}
    /\ conv = <<>>
    /\ \/ /\ users = {UserRow(1, 1, FALSE, FALSE, None, FALSE, None, None)}
          /\ vec = <<>>
          /\ AboutUser(1)
       \/ /\ users = {}
          /\ vec = DeletedAccountVec
          /\ fsm = [t \in TgIds |-> Cleared]
          /\ lists = NoLists
    /\ Quiet

NextReg ==
    \/ \E r \in Reqs, tg \in cfg.chats, kind \in cfg.kinds : Arrive(r, tg, kind)
    \/ \E r \in Reqs :
         \/ MwGet(r) \/ MwCreate(r) \/ MwCreateLost(r)
         \/ UserStart(r) \/ Unhandled(r)
         \/ AboutInit(r) \/ AboutInitFails(r) \/ AboutPersist(r) \/ AboutPersistFails(r)
         \/ GateAllow(r) \/ Embed(r) \/ Reply(r) \/ Answer(r)
         \/ CreateUserMsg(r) \/ CreateAssistantMsg(r)

SpecReg == InitReg /\ [][NextReg]_vars

(* C31: a registration whose init_mentor raises changes nothing: the user  *)
(* row with is_reg = false, the mentor rows and the FSM, which stays in    *)
(* the about_user state, are as before, and nothing else was done          *)
C31_FailedInitChangesNothing ==
    /\ [][\A r \in Reqs :
            ~Has(req[r].log, "raise_init_mentor") /\ Has(req'[r].log, "raise_init_mentor") =>
               /\ users' = users /\ mentors' = mentors /\ conv' = conv
               /\ fsm' = fsm /\ lists' = lists
               /\ fsm'[req[r].tg].state = "about_user"
         ]_vars
    /\ [](\A r \in Reqs :
            Has(req[r].log, "raise_init_mentor") =>
               /\ req[r].pc = "done"
               /\ \A e \in {"update_user", "insert_mentor", "answer", "set_state", "update_data"} :
                    ~Has(req[r].log, e))

C31_Witness ==
    \E r, q \in Reqs :
        /\ r < q
        /\ Has(req[r].log, "raise_init_mentor")
        /\ \E u \in users : u.telegram_id = req[r].tg /\ ~u.is_reg
        /\ fsm[req[r].tg].state = "about_user"
        /\ req[q].pc = "about_persist"

(* C36: a user has is_reg = true only with a mentor row: the profile       *)
(* update and the mentor creation of get_about_user take effect together   *)
C36_RegisteredHasMentor ==
    \A u \in users : u.is_reg => \E mt \in mentors : mt.user_id = u.id

(* C37: no search returns an entry that the deleted account stored         *)
C37_DeletedMemoryNotRetrieved ==
    \A r \in Reqs :
        \A i \in 1 .. Len(req[r].hits) :
            ~\E j \in 1 .. Len(DeletedAccountVec) : req[r].hits[i] = DeletedAccountVec[j]

----------------------------------------------------------------------------
(* The subscription of one user over two days: a new user who registers,   *)
(* or a subscriber whose 30 days end today; invoices and payments, admin   *)
(* gifts and bans, dialogue turns and both sweeps, one update at a time    *)

InitSub ==
    /\ now = 0
    /\ cfg = Config(TRUE, TRUE, TRUE, 1, {1}, {"start", "text", "buy"})
    /\ nextUid = 2
    /\ conv = <<>>
    /\ vec = <<>>
    /\ \/ /\ users = {UserRow(1, 1, FALSE, FALSE, None, FALSE, None, None)}
          /\ mentors = {}
          /\ AboutUser(1)
       \/ /\ users = {UserRow(1, 1, FALSE, TRUE, Some(0), TRUE,
                              Some(AtRest("bg")), Some(AtRest("goal")))}
          /\ mentors = {[id |-> 0, user_id |-> 1]}
          /\ InDialogue(1, 2)
    /\ req = [r \in Reqs |-> NewReq]
    /\ sess = SessIdle
    /\ sweep = [t \in SweepTasks |->
                  SweepTask("sleep", _sleep_until_noon(now), 0, <<>>, <<>>, <<>>, FALSE)]

NextSub ==
    \/ Tick
    \/ \E r \in Reqs, tg \in cfg.chats, kind \in cfg.kinds : Arrive(r, tg, kind)
    \/ \E r \in Reqs, tg \in cfg.chats : InvoiceOpen(tg) /\ Arrive(r, tg, "payment")
    \/ \E r \in Reqs :
         \/ MwGet(r) \/ UserStart(r) \/ Unhandled(r)
         \/ AboutInit(r) \/ AboutPersist(r)
         \/ GateBanned(r) \/ GateExpired(r) \/ GateAllow(r)
         \/ Embed(r) \/ Reply(r) \/ Answer(r) \/ CreateUserMsg(r) \/ CreateAssistantMsg(r)
         \/ start_buy_sub(r) \/ handle_successful_payment(r)
    \/ \E tg \in cfg.chats : AdminBan(tg) \/ gift_sub_finish(tg)
    \/ \E t \in SweepTasks : SweepWake(t) \/ SweepSkip(t) \/ SweepSend(t) \/ SweepCommit(t)

SpecSub == InitSub /\ [][NextSub]_vars

(* C32: a user whose sub_until is in the future has is_sub = true: the     *)
(* expired sweep does not undo a payment or a gift committed after it read *)
(* its list                                                                *)
C32_SweepKeepsRenewal ==
    \A u \in users : IsSet(u.sub_until) /\ Val(u.sub_until) > now => u.is_sub

(* C34: a successful payment that has been handled has activated the       *)
(* subscription, whatever was handled between the invoice and the payment  *)
C34_PaymentActivates ==
    \A r \in Reqs :
        req[r].kind = "payment" /\ req[r].pc = "done" /\ ~Has(req[r].log, "mw_ban_notice") =>
            /\ Has(req[r].log, "paid_msg")
            /\ \E u \in users : /\ u.telegram_id = req[r].tg
                                /\ IsSet(u.sub_until) /\ Val(u.sub_until) > now

(* C35: is_sub = true implies that sub_until is not null *)
C35_SubscribedHasUntil ==
    \A u \in users : u.is_sub => IsSet(u.sub_until)

C35_Witness ==
    /\ \E r \in Reqs : Has(req[r].log, "paid_msg")
    /\ \E r \in Reqs : Has(req[r].log, "insert_mentor")
    /\ \E u \in users : u.is_sub /\ IsSet(u.sub_until) /\ Val(u.sub_until) > now

(* C33: a user who was never subscribed has at most 12 persisted messages, *)
(* however the handling of the user's messages interleaves                 *)
C33_FreeTierAtMostTwelve ==
    \A u \in users :
        ~u.is_sub /\ ~IsSet(u.sub_until) => count(u.id) <= FreeTierLimit + 2

(* C38: a delete_mentor callback deletes only mentors of the user who sent *)
(* it                                                                      *)
C38_DeleteOwnMentorOnly ==
    [][\A r \in Reqs :
         req[r].kind = "delete_mentor" /\ req[r].pc = "handler" /\ req'[r].pc = "done" =>
            \A mt \in mentors \ mentors' :
                \E u \in users : u.telegram_id = req[r].tg /\ u.id = mt.user_id
      ]_vars

(* C39: an entry of Vector Memory whose user still exists stays in the     *)
(* collection, unchanged                                                   *)
C39_VectorEntriesKept ==
    [][\A i \in 1 .. Len(vec) :
         (\E u \in users' : u.telegram_id = vec[i].user_id) =>
             \E j \in 1 .. Len(vec') : vec'[j] = vec[i]
      ]_vars

====
